---- MODULE Spec2Model ----
(***************************************************************************)
(* A model of the DIP-721 registry canister of                             *)
(* src/nft-mint-activity/src/lib.rs: the token ledger (mint, simpleMint,   *)
(* the transfer variants, approve, setApprovalForAll, burn), the custodian *)
(* administration and the content-hash index written on mint.              *)
(*                                                                         *)
(* Every update call of the canister runs to completion on the single      *)
(* STATE cell, so each entry point is one action.  The variable `last`     *)
(* records the call that was just served and what it replied: a call that  *)
(* was applied records all its arguments, a call that was rejected records *)
(* its entry point, caller, token id and error (simpleMint, whose reply    *)
(* depends on its arguments alone, always records them).  A call that      *)
(* panics traps: the canister rolls the message back and the caller gets   *)
(* a reject, recorded as "Trap".                                           *)
(*                                                                         *)
(* An upgrade (pre_upgrade, then post_upgrade) is one action as well: the  *)
(* state is encoded to stable memory and decoded back, each hash set and   *)
(* map going through a vector in whatever order it is walked, and a panic  *)
(* of either hook abandons the upgrade.  The                               *)
(* onDIP721Received calls of the notifying transfers leave with the reply  *)
(* and are answered later, if followed; `titled` keeps, for the tokens     *)
(* followed, who has ever held authority over them.                        *)
(***************************************************************************)
EXTENDS Integers, Sequences, FiniteSets, TLC

\* ------------------------------------------------------------------ bounds
\* tokens minted at most, value of txid at most, latest clock reading
MaxTokens == 2
MaxTxid == 3
MaxTime == 3
\* notifications followed while they await their answer
MaxInflight == 2

\* -------------------------------------------------------------- identities
\* const MGMT: Principal = Principal::from_slice(&[])
MGMT == "mgmt"
Principals == {MGMT, "a", "b", "c"}
\* Option::None
None == "none"

\* ------------------------------------------------------------------- state
VARIABLES
    nfts,        \* State.nfts: Vec<Nft>
    custodians,  \* State.custodians: HashSet<Principal>
    operators,   \* State.operators: the set the map holds for a key, {} for a key
                 \* it does not hold (every read is operators.get ... unwrap_or)
    operator_keys, \* State.operators: the keys the map holds
    logo,        \* State.logo: Option<LogoResult>
    name,        \* State.name
    symbol,      \* State.symbol
    txid,        \* State.txid: u128
    white_list,  \* State.white_list: Vec<Principal>
    begin_date,  \* State.begin_date, as the timestamp it parses to
    end_date,    \* State.end_date, as the timestamp it parses to
    total_limit, \* State.total_limit
    HASHES,      \* http::HASHES: the content-hash index
    burned,      \* history: the token ids on which burn has succeeded
    last,        \* history: the call just served and its reply
    inflight,    \* the onDIP721Received calls dispatched and not yet answered
    titled       \* history: per token, the identities that have held a title to it

vars == <<nfts, custodians, operators, operator_keys, logo, name, symbol, txid, white_list,
          begin_date, end_date, total_limit, HASHES, burned, last, inflight,
          titled>>

\* the fields no update but init writes
config == <<white_list, begin_date, end_date, total_limit>>
\* the collection's descriptive fields
meta == <<logo, name, symbol>>
\* everything a rejected or trapped call leaves as it was
ledger == <<nfts, custodians, operators, operator_keys, meta, txid, config, HASHES,
            burned>>

\* struct Nft
Nft(owner, approved, id, metadata, content) ==
    [owner |-> owner, approved |-> approved, id |-> id,
     metadata |-> metadata, content |-> content]

\* The record of a served call.
\*   a    : the first principal argument (from / user / operator)
\*   text : the string argument (uri, name, symbol, logo)
\*   res  : "Ok", the error variant, or "Trap"
\*   ret  : the txid replied (-1: none);  tok : the token id replied (-1: none)
\*   notified : whether the call dispatched onDIP721Received to `to`
Call(op, caller, a, to, id, flag, text, now, res, ret, tok, notified) ==
    [op |-> op, caller |-> caller, a |-> a, to |-> to, id |-> id, flag |-> flag,
     text |-> text, now |-> now, res |-> res, ret |-> ret, tok |-> tok,
     notified |-> notified]

\* A call rejected with error res: nothing is written.
Reject_advance(op, caller, token_id, res) ==
    /\ last' = Call(op, caller, None, None, token_id, FALSE, "", -1, res, -1, -1, FALSE)
    /\ txid < MaxTxid
    /\ txid' = txid + 1
    /\ UNCHANGED <<nfts, custodians, operators, operator_keys, meta, config, HASHES, burned>>
Reject(op, caller, token_id, res) ==
    /\ last' = Call(op, caller, None, None, token_id, FALSE, "", -1, res, -1, -1, FALSE)
    /\ UNCHANGED ledger

\* ------------------------------------------------------------------ inputs
\* URIs: the empty string, a non-empty string URI::try_from rejects, a valid URI
Uris == {"", "::bad", "ipfs://x"}
\* URI::try_from(&*uri).is_ok()
ValidUri(uri) == uri = "ipfs://x"
\* Sha256::digest, as an injective tag of its input
Sha256(bytes) == <<"sha256", bytes>>
\* Utc::now().timestamp_millis()
Times == 0..MaxTime
TokenIds == 0..MaxTokens
\* the token ids passed: every valid id and the first invalid one
Ids == 0..Len(nfts)

\* usize::try_from(token_id) and Vec::get: ids are 0-based, Seq is 1-based
InRange(token_id) == token_id >= 0 /\ token_id < Len(nfts)
NftAt(token_id) == nfts[token_id + 1]

\* ------------------------------------------------------------------ queries
owner_of(token_id) ==
    IF InRange(token_id) THEN NftAt(token_id).owner ELSE "InvalidTokenId"

total_supply == Len(nfts)

balance_of(user) == Cardinality({i \in 1..Len(nfts) : nfts[i].owner = user})

is_approved_for_all(caller, operator) == operator \in operators[caller]

is_custodian(principal) == principal \in custodians

\* ----------------------------------------------------------------- txid
\* State::next_txid: replies the counter and advances it
next_txid_skip(t) == [ret |-> t, txid |-> t + 2]
next_txid(t) == [ret |-> t, txid |-> t + 1]

\* ------------------------------------------------------------------- init
\* #[init]: custodians, whitelist and mint window come from the arguments;
\* everything else is State::default().
Init ==
    /\ nfts = <<>>
    /\ custodians = {"a"}
    /\ operators = [p \in Principals |-> {}]
    /\ operator_keys = {}
    /\ logo = None
    /\ name = "n0"
    /\ symbol = "s0"
    /\ txid = 0
    /\ white_list = <<"b">>
    /\ begin_date = 1
    /\ end_date = 2
    /\ total_limit = "10"
    /\ HASHES = <<>>
    /\ burned = {}
    /\ last = Call("init", None, None, None, -1, FALSE, "", -1, "Ok", -1, -1, FALSE)
    /\ inflight = {}
    /\ titled = [i \in TokenIds |-> {}]

\* ---------------------------------------------------------------- transfer
\* transfer_from's authorization test (lines 163-170, negated)
TransferAuthorized_noCustodian(caller, from, nft) ==
    \/ nft.owner = caller
    \/ nft.approved = caller
    \/ caller \in operators[from]
TransferAuthorized(caller, from, nft) ==
    \/ nft.owner = caller
    \/ nft.approved = caller
    \/ caller \in operators[from]
    \/ caller \in custodians

\* transfer_from's reply
TransferRes(caller, from, to, token_id) ==
    IF ~InRange(token_id) THEN "InvalidTokenId"
    ELSE IF ~TransferAuthorized(caller, from, NftAt(token_id)) THEN "Unauthorized"
    ELSE IF NftAt(token_id).owner # from THEN "Other"
    ELSE "Ok"

\* safe_transfer_from's reply
SafeTransferRes_rangeFirst(caller, from, to, token_id) ==
    IF ~InRange(token_id) THEN "InvalidTokenId"
    ELSE IF to = MGMT THEN "ZeroAddress"
    ELSE TransferRes(caller, from, to, token_id)
SafeTransferRes_unchecked(caller, from, to, token_id) ==
    TransferRes(caller, from, to, token_id)
SafeTransferRes(caller, from, to, token_id) ==
    IF to = MGMT THEN "ZeroAddress" ELSE TransferRes(caller, from, to, token_id)

\* transfer_from's writes to the token
Transferred_keepApproved(nft, to) == [nft EXCEPT !.owner = to]
Transferred(nft, to) == [nft EXCEPT !.approved = None, !.owner = to]

\* transfer_from reached from entry point op, its reply res decided
TransferBody_notifyAlways(op, caller, from, to, token_id, res, notify) ==
    IF res = "Ok"
    THEN /\ txid < MaxTxid
         /\ nfts' = [nfts EXCEPT ![token_id + 1] = Transferred(@, to)]
         /\ txid' = next_txid(txid).txid
         /\ last' = Call(op, caller, from, to, token_id, FALSE, "", -1, "Ok",
                         next_txid(txid).ret, -1, notify)
         /\ UNCHANGED <<custodians, operators, operator_keys, meta, config, HASHES, burned>>
    ELSE /\ last' = Call(op, caller, from, to, token_id, FALSE, "", -1, res, -1, -1, notify)
         /\ UNCHANGED ledger
TransferBody(op, caller, from, to, token_id, res, notify) ==
    IF res = "Ok"
    THEN /\ txid < MaxTxid
         /\ nfts' = [nfts EXCEPT ![token_id + 1] = Transferred(@, to)]
         /\ txid' = next_txid(txid).txid
         /\ last' = Call(op, caller, from, to, token_id, FALSE, "", -1, "Ok",
                         next_txid(txid).ret, -1, notify)
         /\ UNCHANGED <<custodians, operators, operator_keys, meta, config, HASHES, burned>>
    ELSE Reject(op, caller, token_id, res)

transfer_from(caller, from, to, token_id) ==
    TransferBody("transferFrom", caller, from, to, token_id,
                 TransferRes(caller, from, to, token_id), FALSE)

safe_transfer_from(caller, from, to, token_id) ==
    TransferBody("safeTransferFrom", caller, from, to, token_id,
                 SafeTransferRes(caller, from, to, token_id), FALSE)

\* the notification is dispatched only after transfer_from returned Ok
transfer_from_notify(caller, from, to, token_id) ==
    TransferBody("transferFromNotify", caller, from, to, token_id,
                 TransferRes(caller, from, to, token_id), TRUE)

safe_transfer_from_notify(caller, from, to, token_id) ==
    TransferBody("safeTransferFromNotify", caller, from, to, token_id,
                 SafeTransferRes(caller, from, to, token_id), TRUE)

\* ---------------------------------------------------------------- approval
\* approve's authorization test (lines 330-337, negated)
ApproveAuthorized_byOwner(caller, user, nft) ==
    \/ nft.owner = caller
    \/ nft.approved = caller
    \/ caller \in operators[nft.owner]
    \/ caller \in custodians
ApproveAuthorized(caller, user, nft) ==
    \/ nft.owner = caller
    \/ nft.approved = caller
    \/ caller \in operators[user]
    \/ caller \in custodians

\* approve's reply
ApproveRes(caller, user, token_id) ==
    IF ~InRange(token_id) THEN "InvalidTokenId"
    ELSE IF ~ApproveAuthorized(caller, user, NftAt(token_id)) THEN "Unauthorized"
    ELSE "Ok"

approve(caller, user, token_id) ==
    IF ApproveRes(caller, user, token_id) = "Ok"
    THEN /\ txid < MaxTxid
         /\ nfts' = [nfts EXCEPT ![token_id + 1].approved = user]
         /\ txid' = next_txid(txid).txid
         /\ last' = Call("approve", caller, user, None, token_id, FALSE, "", -1, "Ok",
                         next_txid(txid).ret, -1, FALSE)
         /\ UNCHANGED <<custodians, operators, operator_keys, meta, config, HASHES, burned>>
    ELSE Reject("approve", caller, token_id, ApproveRes(caller, user, token_id))

\* set_approval_for_all's new operator set of the caller
NewOperators_noClear(old, caller, operator, is_approved) ==
    IF operator = caller THEN old
    ELSE IF operator = MGMT THEN old
    ELSE IF is_approved THEN old \cup {operator}
    ELSE old \ {operator}
NewOperators_everyone(old, caller, operator, is_approved) ==
    IF operator = caller THEN old
    ELSE IF operator = MGMT THEN (IF ~is_approved THEN {} ELSE Principals \ {caller})
    ELSE IF is_approved THEN old \cup {operator}
    ELSE old \ {operator}
NewOperators(old, caller, operator, is_approved) ==
    IF operator = caller THEN old
    ELSE IF operator = MGMT THEN (IF ~is_approved THEN {} ELSE old)
    ELSE IF is_approved THEN old \cup {operator}
    ELSE old \ {operator}

set_approval_for_all(caller, operator, is_approved) ==
    /\ txid < MaxTxid
    /\ operators' = [operators EXCEPT
                       ![caller] = NewOperators(@, caller, operator, is_approved)]
    /\ operator_keys' = IF operator # caller
                        THEN operator_keys \cup {caller}
                        ELSE operator_keys
    /\ txid' = next_txid(txid).txid
    /\ last' = Call("setApprovalForAll", caller, operator, None, -1, is_approved, "", -1,
                    "Ok", next_txid(txid).ret, -1, FALSE)
    /\ UNCHANGED <<nfts, custodians, meta, config, HASHES, burned>>

\* -------------------------------------------------------------------- mint
\* http::add_hash(tkid): one index entry for the new token id
add_hash(hashes, tkid, content) == Append(hashes, <<tkid, Sha256(content)>>)

\* The token mint pushes
NewNft_reuseId(to, metadata, blob_content) == Nft(to, None, 0, metadata, blob_content)
NewNft(to, metadata, blob_content) == Nft(to, None, Len(nfts), metadata, blob_content)

\* mint's body, reached from entry point op while `borrowed` shared borrows of
\* STATE are alive in the caller: RefCell::borrow_mut panics unless there is none.
\* mint never reads api::caller().
MintBody_noHash(op, to, text, now, metadata, blob_content, borrowed) ==
    IF borrowed > 0
    THEN /\ last' = Call(op, None, None, to, -1, FALSE, text, now, "Trap", -1, -1, FALSE)
         /\ UNCHANGED ledger
    ELSE /\ Len(nfts) < MaxTokens
         /\ txid < MaxTxid
         /\ nfts' = Append(nfts, NewNft(to, metadata, blob_content))
         /\ txid' = next_txid(txid).txid
         /\ last' = Call(op, None, None, to, -1, FALSE, text, now, "Ok",
                         next_txid(txid).ret, Len(nfts), FALSE)
         /\ UNCHANGED <<custodians, operators, operator_keys, meta, config, HASHES, burned>>
MintBody(op, to, text, now, metadata, blob_content, borrowed) ==
    IF borrowed > 0
    THEN /\ last' = Call(op, None, None, to, -1, FALSE, text, now, "Trap", -1, -1, FALSE)
         /\ UNCHANGED ledger
    ELSE /\ Len(nfts) < MaxTokens
         /\ txid < MaxTxid
         /\ nfts' = Append(nfts, NewNft(to, metadata, blob_content))
         /\ txid' = next_txid(txid).txid
         /\ HASHES' = add_hash(HASHES, Len(nfts), blob_content)
         /\ last' = Call(op, None, None, to, -1, FALSE, text, now, "Ok",
                         next_txid(txid).ret, Len(nfts), FALSE)
         /\ UNCHANGED <<custodians, operators, operator_keys, meta, config, burned>>

mint(to, metadata, blob_content) ==
    MintBody("mint", to, "", -1, metadata, blob_content, 0)

\* The metadata simple_mint builds (lines 448-464)
SimpleMetadata(uri, mime_type, nm, origin) ==
    <<[purpose |-> "Rendered",
       data |-> <<>>,
       key_val_data |-> [locationType |-> 3, location |-> uri,
                         contentHash |-> Sha256(uri), contentType |-> mime_type,
                         name |-> nm, origin |-> origin]]>>

InWhiteList(to) == \E k \in 1..Len(white_list) : white_list[k] = to

\* simple_mint's checks, in the order of the code; "Pass" when mint is called
SimpleMintChecks_openList(to, uri, now) ==
    IF uri = "" \/ ~ValidUri(uri) THEN "Unauthorized"
    ELSE IF now < begin_date \/ now > end_date THEN "TimeError"
    ELSE "Pass"
SimpleMintChecks(to, uri, now) ==
    IF uri = "" THEN "Unauthorized"
    ELSE IF ~ValidUri(uri) THEN "Unauthorized"
    ELSE IF now < begin_date \/ now > end_date THEN "TimeError"
    ELSE IF ~InWhiteList(to) THEN "Unauthorized"
    ELSE "Pass"

\* The shared borrows of STATE alive when simple_mint calls mint: the Ref
\* temporaries of lines 468, 469 and 480 live to the end of the closure.
SimpleMintBorrows == 3

simple_mint(to, uri, mime_type, nm, origin, now) ==
    IF SimpleMintChecks(to, uri, now) = "Pass"
    THEN MintBody("simpleMint", to, uri, now,
                  SimpleMetadata(uri, mime_type, nm, origin), <<>>, SimpleMintBorrows)
    ELSE /\ last' = Call("simpleMint", None, None, to, -1, FALSE, uri, now,
                         SimpleMintChecks(to, uri, now), -1, -1, FALSE)
         /\ UNCHANGED ledger

\* ---------------------------------------------------------------- burn
BurnRes_anyAuthorized(caller, token_id) ==
    IF ~InRange(token_id) THEN "InvalidTokenId"
    ELSE IF ~TransferAuthorized(caller, NftAt(token_id).owner, NftAt(token_id))
    THEN "Unauthorized"
    ELSE "Ok"
BurnRes(caller, token_id) ==
    IF ~InRange(token_id) THEN "InvalidTokenId"
    ELSE IF NftAt(token_id).owner # caller THEN "Unauthorized"
    ELSE "Ok"

\* burn's write to the token: the owner alone
Burned_clearApproved(nft) == [nft EXCEPT !.owner = MGMT, !.approved = None]
Burned(nft) == [nft EXCEPT !.owner = MGMT]

burn(caller, token_id) ==
    IF BurnRes(caller, token_id) = "Ok"
    THEN /\ txid < MaxTxid
         /\ nfts' = [nfts EXCEPT ![token_id + 1] = Burned(@)]
         /\ txid' = next_txid(txid).txid
         /\ burned' = burned \cup {token_id}
         /\ last' = Call("burn", caller, None, None, token_id, FALSE, "", -1, "Ok",
                         next_txid(txid).ret, -1, FALSE)
         /\ UNCHANGED <<custodians, operators, operator_keys, meta, config, HASHES>>
    ELSE Reject("burn", caller, token_id, BurnRes(caller, token_id))

\* ------------------------------------------------------------ custodians
\* the custodian gate of set_name, set_symbol, set_logo and set_custodian
AdminRes_open(caller) == "Ok"
AdminRes(caller) == IF caller \in custodians THEN "Ok" ELSE "Unauthorized"

set_name(caller, nm) ==
    IF AdminRes(caller) = "Ok"
    THEN /\ name' = nm
         /\ last' = Call("setName", caller, None, None, -1, FALSE, nm, -1, "Ok", -1, -1, FALSE)
         /\ UNCHANGED <<nfts, custodians, operators, operator_keys, logo, symbol, txid, config,
                       HASHES, burned>>
    ELSE Reject("setName", caller, -1, AdminRes(caller))

set_symbol(caller, sym) ==
    IF AdminRes(caller) = "Ok"
    THEN /\ symbol' = sym
         /\ last' = Call("setSymbol", caller, None, None, -1, FALSE, sym, -1, "Ok", -1, -1, FALSE)
         /\ UNCHANGED <<nfts, custodians, operators, operator_keys, logo, name, txid, config,
                       HASHES, burned>>
    ELSE Reject("setSymbol", caller, -1, AdminRes(caller))

set_logo(caller, lg) ==
    IF AdminRes(caller) = "Ok"
    THEN /\ logo' = lg
         /\ last' = Call("setLogo", caller, None, None, -1, FALSE, lg, -1, "Ok", -1, -1, FALSE)
         /\ UNCHANGED <<nfts, custodians, operators, operator_keys, name, symbol, txid, config,
                       HASHES, burned>>
    ELSE Reject("setLogo", caller, -1, AdminRes(caller))

set_custodian(caller, user, custodian) ==
    IF AdminRes(caller) = "Ok"
    THEN /\ custodians' = IF custodian THEN custodians \cup {user} ELSE custodians \ {user}
         /\ last' = Call("setCustodian", caller, user, None, -1, custodian, "", -1,
                         "Ok", -1, -1, FALSE)
         /\ UNCHANGED <<nfts, operators, operator_keys, meta, txid, config, HASHES, burned>>
    ELSE Reject("setCustodian", caller, -1, AdminRes(caller))

\* ------------------------------------------------------------- upgrade
\* The operators map as it is in memory: a set for each key it holds.  A key
\* is put by set_approval_for_all (entry(caller).or_default()) and never
\* taken out, so a key may hold the empty set.
OperatorsMap == [p \in operator_keys |-> operators[p]]

\* A HashSet or HashMap yields its elements in no specified order: iter() may
\* walk the set S as any of its arrangements.
Perms(S) ==
    {s \in [1..Cardinality(S) -> S] : \A x \in S : \E k \in 1..Cardinality(S) : s[k] = x}

\* The walks one upgrade may meet, each collection on its own: the custodian
\* set, the keys of the operators map, the set under each key, and the
\* entries of the hash index (by their position in HASHES).
Orders ==
    [custodians : Perms(custodians),
     keys : Perms(operator_keys),
     sets : {f \in [operator_keys -> UNION {Perms(operators[p]) : p \in operator_keys}] :
                \A p \in operator_keys : f[p] \in Perms(operators[p])},
     hashes : Perms(1..Len(HASHES))]

\* iter() of a hash set S walked in the order `order` lists its elements
RECURSIVE Iter(_, _)
Iter(S, order) ==
    IF order = <<>> THEN <<>>
    ELSE (IF Head(order) \in S THEN <<Head(order)>> ELSE <<>>) \o Iter(S, Tail(order))

\* collect() into a hash set
Collect(vec) == {vec[k] : k \in 1..Len(vec)}

\* the last position of key in a vector of (key, value) pairs, 0 if none:
\* inserting the pairs one by one, the last one with a key is the one kept
LastOf(vec, key) ==
    IF \E k \in 1..Len(vec) : vec[k][1] = key
    THEN CHOOSE k \in 1..Len(vec) :
            /\ vec[k][1] = key
            /\ \A m \in 1..Len(vec) : vec[m][1] = key => m <= k
    ELSE 0

\* collect() of (key, digest) pairs into http::HASHES: one entry per key, kept
\* here by ascending key
HashCollect(vec) ==
    LET keys == {vec[k][1] : k \in 1..Len(vec)}
    IN  [n \in 1..Cardinality(keys) |->
            vec[LastOf(vec, CHOOSE key \in keys :
                              Cardinality({x \in keys : x < key}) = n - 1)]]

\* The Candid encoding of State (derive(CandidType), lines 539-552): the
\* vectors and scalars as they are, a hash set as the vector of its elements,
\* the operators map as the vector of its (key, set) entries, each walked in
\* its own order.
EncodeOperators(ops, order) ==
    LET keys == Iter(DOMAIN ops, order.keys)
    IN  [k \in 1..Len(keys) |-> <<keys[k], Iter(ops[keys[k]], order.sets[keys[k]])>>]
EncodeState(st, order) ==
    [nfts |-> st.nfts, custodians |-> Iter(st.custodians, order.custodians),
     operators |-> EncodeOperators(st.operators, order),
     logo |-> st.logo, name |-> st.name, symbol |-> st.symbol, txid |-> st.txid,
     white_list |-> st.white_list, begin_date |-> st.begin_date,
     end_date |-> st.end_date, total_limit |-> st.total_limit]

\* The decoding into State (derive(Deserialize)): the sets and the map are
\* rebuilt from their vectors; a field of the record that State does not have
\* is skipped, and the optional field, logo, reads None when it is missing.
DecodeOperators(vec) ==
    [p \in {vec[k][1] : k \in 1..Len(vec)} |-> Collect(vec[LastOf(vec, p)][2])]
DecodeState(enc) ==
    [nfts |-> enc.nfts, custodians |-> Collect(enc.custodians),
     operators |-> DecodeOperators(enc.operators),
     logo |-> IF "logo" \in DOMAIN enc THEN enc.logo ELSE None,
     name |-> enc.name, symbol |-> enc.symbol, txid |-> enc.txid,
     white_list |-> enc.white_list, begin_date |-> enc.begin_date,
     end_date |-> enc.end_date, total_limit |-> enc.total_limit]

\* the fields of State that a record must have to decode
RequiredFields ==
    {"nfts", "custodians", "operators", "name", "symbol", "txid",
     "white_list", "begin_date", "end_date", "total_limit"}

\* storage::stable_save((stable_state,)): the encoding written to stable
\* memory, or an error when stable memory has no room for it
stable_save(stable_state, order, room) ==
    IF room
    THEN [ok |-> TRUE,
          bytes |-> [state |-> EncodeState(stable_state.state, order),
                     hashes |-> stable_state.hashes]]
    ELSE [ok |-> FALSE, bytes |-> None]

\* storage::stable_restore(): the StableState decoded from stable memory, or
\* an error when what is there lacks a field that must be there
stable_restore(saved) ==
    IF /\ saved.ok
       /\ {"state", "hashes"} \subseteq DOMAIN saved.bytes
       /\ RequiredFields \subseteq DOMAIN saved.bytes.state
    THEN [ok |-> TRUE,
          value |-> [state |-> DecodeState(saved.bytes.state),
                     hashes |-> saved.bytes.hashes]]
    ELSE [ok |-> FALSE, value |-> None]

\* pre_upgrade, up to stable_save: STATE and http::HASHES are taken out of
\* their cells and the index is flattened to the vector of its (key, digest)
\* pairs, in the order its iterator yields them.
pre_upgrade_noHashes(order) ==
    [state |-> [nfts |-> nfts, custodians |-> custodians, operators |-> OperatorsMap,
                logo |-> logo, name |-> name, symbol |-> symbol, txid |-> txid,
                white_list |-> white_list, begin_date |-> begin_date,
                end_date |-> end_date, total_limit |-> total_limit],
     hashes |-> <<>>]
pre_upgrade(order) ==
    [state |-> [nfts |-> nfts, custodians |-> custodians, operators |-> OperatorsMap,
                logo |-> logo, name |-> name, symbol |-> symbol, txid |-> txid,
                white_list |-> white_list, begin_date |-> begin_date,
                end_date |-> end_date, total_limit |-> total_limit],
     hashes |-> [k \in 1..Len(HASHES) |->
                    <<HASHES[order.hashes[k]][1], HASHES[order.hashes[k]][2]>>]]

\* post_upgrade, after stable_restore: the state goes to STATE and the pairs
\* are collected into http::HASHES.
post_upgrade(stable_state) ==
    [state |-> stable_state.state, hashes |-> HashCollect(stable_state.hashes)]

\* what an upgrade that meets the walks of `order` leaves in the two cells, or
\* ok = FALSE when one of the two unwrap() calls (lines 51, 55) panics
Upgraded(order, room) ==
    LET restored == stable_restore(stable_save(pre_upgrade(order), order, room))
    IN  IF restored.ok
        THEN [ok |-> TRUE, cells |-> post_upgrade(restored.value)]
        ELSE [ok |-> FALSE, cells |-> None]

\* An upgrade of the canister: pre_upgrade in the old module, post_upgrade in
\* the new one; no call is served in between.  A panic in either hook traps:
\* the upgrade is abandoned and the canister keeps the state it had.
upgrade(order, room) ==
    \E up \in {Upgraded(order, room)} :
        IF up.ok
        THEN /\ nfts' = up.cells.state.nfts
             /\ custodians' = up.cells.state.custodians
             /\ operator_keys' = DOMAIN up.cells.state.operators
             /\ operators' = [p \in Principals |->
                                IF p \in DOMAIN up.cells.state.operators
                                THEN up.cells.state.operators[p] ELSE {}]
             /\ logo' = up.cells.state.logo
             /\ name' = up.cells.state.name
             /\ symbol' = up.cells.state.symbol
             /\ txid' = up.cells.state.txid
             /\ white_list' = up.cells.state.white_list
             /\ begin_date' = up.cells.state.begin_date
             /\ end_date' = up.cells.state.end_date
             /\ total_limit' = up.cells.state.total_limit
             /\ HASHES' = up.cells.hashes
             /\ last' = Call("upgrade", None, None, None, -1, FALSE, "", -1, "Ok",
                             -1, -1, FALSE)
             /\ UNCHANGED burned
        ELSE /\ last' = Call("upgrade", None, None, None, -1, FALSE, "", -1, "Trap",
                             -1, -1, FALSE)
             /\ UNCHANGED ledger

\* ------------------------------------------------------- notifications
\* The arguments of the onDIP721Received call a transfer dispatched (line 289:
\* caller, from, token id), its callee, and the txid the transfer replied.
Notification(call) ==
    [to |-> call.to, caller |-> call.caller, from |-> call.a,
     token_id |-> call.id, txid |-> call.ret]

\* call_raw (line 297): the call leaves with the reply of the transfer and
\* nobody awaits it.  At most K notifications are followed while they await
\* their answer; one dispatched beyond that is taken as answered at once.
Dispatch(K) ==
    inflight' = IF last'.notified /\ Cardinality(inflight) < K
                THEN inflight \cup {Notification(last')}
                ELSE inflight

\* The answer to a notification, a reply or a reject, arrives: the future of
\* line 297 was dropped, so nothing of the registry runs.
notification_answered(n) ==
    /\ n \in inflight
    /\ inflight' = inflight \ {n}
    /\ UNCHANGED <<ledger, last, titled>>

\* ------------------------------------------------------------- titles
\* The titles to token i that the authorization tests of transfer_from and
\* approve read (lines 163-170, 330-337), taken from the token's owner: to be
\* a custodian, to own the token, to be an operator registered by its owner.
Titles(i) == custodians \cup {NftAt(i).owner} \cup operators[NftAt(i).owner]

\* The history of titles, kept for the tokens of T.  A served call leaves to a
\* token the titles it had, those that hold after the call, and the delegate
\* named by an approve applied for a caller that held a title or was the
\* delegate by title.
Entitle(T) ==
    IF T = {}
    THEN titled' = titled
    ELSE titled' = [i \in TokenIds |->
                      IF i \in T /\ i < Len(nfts')
                      THEN titled[i] \cup Titles(i)'
                           \cup (IF /\ last'.op = "approve" /\ last'.res = "Ok"
                                     /\ last'.id = i
                                     /\ \/ last'.caller \in Titles(i)
                                        \/ /\ last'.caller = NftAt(i).approved
                                           /\ last'.caller \in titled[i]
                                  THEN {last'.a} ELSE {})
                      ELSE titled[i]]

\* what is followed beside the registry: K notifications in flight, and the
\* titles to the tokens of T
Follow(K, T) == Dispatch(K) /\ Entitle(T)

\* ------------------------------------------------------------- the system
\* One served call.  C: the callers; P: the principals passed as from / to /
\* user / operator / mint recipient; U, G: the principals and flags passed to
\* set_custodian; N, S, L: the names, symbols and logos passed to set_name,
\* set_symbol, set_logo; K: the notifications followed while in flight; T: the
\* tokens whose titles are followed.
Ops(C, P, U, G, N, S, L, K, T) ==
    \/ \E c \in C, f \in P, t \in P, i \in Ids :
          transfer_from(c, f, t, i) /\ Follow(K, T)
    \/ \E c \in C, f \in P, t \in P, i \in Ids :
          safe_transfer_from(c, f, t, i) /\ Follow(K, T)
    \/ \E c \in C, f \in P, t \in P, i \in Ids :
          transfer_from_notify(c, f, t, i) /\ Follow(K, T)
    \/ \E c \in C, f \in P, t \in P, i \in Ids :
          safe_transfer_from_notify(c, f, t, i) /\ Follow(K, T)
    \/ \E c \in C, u \in P, i \in Ids : approve(c, u, i) /\ Follow(K, T)
    \/ \E c \in C, o \in P, b \in BOOLEAN :
          set_approval_for_all(c, o, b) /\ Follow(K, T)
    \/ \E t \in P : mint(t, <<>>, <<>>) /\ Follow(K, T)
    \/ \E t \in P, u \in Uris, n \in Times :
          simple_mint(t, u, "image/png", "nm", "org", n) /\ Follow(K, T)
    \/ \E c \in C, i \in Ids : burn(c, i) /\ Follow(K, T)
    \/ \E c \in C, n \in N : set_name(c, n) /\ Follow(K, T)
    \/ \E c \in C, s \in S : set_symbol(c, s) /\ Follow(K, T)
    \/ \E c \in C, l \in L : set_logo(c, l) /\ Follow(K, T)
    \/ \E c \in C, u \in U, g \in G : set_custodian(c, u, g) /\ Follow(K, T)
    \/ \E o \in Orders, r \in BOOLEAN : upgrade(o, r) /\ Follow(K, T)

\* The ledger at work: two callers, of which "a" is the custodian, and the
\* sentinel as arguments; the administrative calls are made with the values
\* already set, so the custodian set stays {"a"}.
Next == Ops({"a", "b"}, {MGMT, "a", "b"}, {"a"}, {TRUE}, {"n0"}, {"s0"}, {None},
            0, {})

Spec == Init /\ [][Next]_vars

\* The administration at work: every caller may try every change of the
\* custodian set and of the descriptive fields; the tokens are those of "b".
NextAdmin ==
    Ops({"a", "b"}, {"b"}, {MGMT, "a", "b"}, BOOLEAN, {"n1"}, {"s1"}, {"l1"}, 0, {})

SpecAdmin == Init /\ [][NextAdmin]_vars

\* Notifications at work: the callers transfer among themselves, MaxInflight
\* notifications are followed until their answer arrives, and the callee of a
\* notification is free to call the registry before it answers.
NextNotify ==
    \/ Ops({"a", "b"}, {"a", "b"}, {"a"}, {TRUE}, {"n0"}, {"s0"}, {None},
           MaxInflight, {})
    \/ \E n \in inflight : notification_answered(n)

SpecNotify == Init /\ [][NextNotify]_vars

\* Delegation at work: "b" and "c", neither a custodian, are the callers; the
\* tokens are minted to any of "a", "b", "c", and the titles to every token
\* are followed.
NextDelegation ==
    Ops({"b", "c"}, {"a", "b", "c"}, {"a"}, {TRUE}, {"n0"}, {"s0"}, {None}, 0, TokenIds)

SpecDelegation == Init /\ [][NextDelegation]_vars

\* =================================================================== claims
TransferOps ==
    {"transferFrom", "safeTransferFrom", "transferFromNotify", "safeTransferFromNotify"}
MutatingOps == TransferOps \cup {"mint", "simpleMint", "approve", "setApprovalForAll", "burn"}
AdminOps == {"setName", "setSymbol", "setLogo", "setCustodian"}
ValidIds == {i \in TokenIds : InRange(i)}

\* ----------------------------------------------------------------------- C1
C1_Decides ==
    \A c \in Principals, f \in Principals, t \in Principals, i \in ValidIds :
        (TransferRes(c, f, t, i) = "Ok")
            <=> /\ \/ c = NftAt(i).owner
                   \/ c = NftAt(i).approved
                   \/ c \in operators[f]
                   \/ c \in custodians
                /\ f = NftAt(i).owner

C1_Applied ==
    /\ (last'.op = "transferFrom" /\ last'.res = "Ok") =>
          /\ InRange(last'.id)
          /\ \/ last'.caller = NftAt(last'.id).owner
             \/ last'.caller = NftAt(last'.id).approved
             \/ last'.caller \in operators[last'.a]
             \/ last'.caller \in custodians
          /\ last'.a = NftAt(last'.id).owner
          /\ nfts'[last'.id + 1].owner = last'.to
    /\ (last'.op = "transferFrom" /\ last'.res # "Ok") => nfts' = nfts

\* C1: for a valid token id, transferFrom(from, to, id) by caller C replies Ok
\* exactly when C is the owner, the approved delegate, an operator registered
\* under `from` or a custodian, and `from` is the current owner; an applied
\* transferFrom met that condition and leaves the token owned by `to`.
C1_TransferFromIff == [](C1_Decides) /\ [][C1_Applied]_vars

\* a transferFrom applied for a caller who is only an operator of `from`
C1_Witness ==
    /\ last.op = "transferFrom" /\ last.res = "Ok"
    /\ last.caller # last.a
    /\ last.caller \in operators[last.a]
    /\ last.caller \notin custodians
    /\ NftAt(last.id).owner = last.to

\* ----------------------------------------------------------------------- C2
\* C2: right after any applied transfer (transferFrom, safeTransferFrom or a
\* notify variant) the token is owned by `to` and has no approved delegate, so
\* the delegate that moved it is a delegate no more.
C2_ApprovalCleared ==
    (last.op \in TransferOps /\ last.res = "Ok") =>
        /\ NftAt(last.id).approved = None
        /\ NftAt(last.id).approved # last.caller
        /\ NftAt(last.id).owner = last.to

\* owner X approved Y, and Y (no operator, no custodian) moved the token to Z
C2_Witness ==
    /\ last.op \in TransferOps /\ last.res = "Ok"
    /\ last.caller # last.a
    /\ last.caller \notin operators[last.a]
    /\ last.caller \notin custodians
    /\ last.to # last.a
    /\ NftAt(last.id).owner = last.to

\* ----------------------------------------------------------------------- C3
C3_Decides ==
    \A c \in Principals, i \in ValidIds :
        /\ (BurnRes(c, i) = "Ok") <=> (c = NftAt(i).owner)
        /\ (c # NftAt(i).owner) => BurnRes(c, i) = "Unauthorized"

C3_Applied ==
    (last'.op = "burn" /\ InRange(last'.id)) =>
        /\ (last'.res = "Ok") <=> (last'.caller = NftAt(last'.id).owner)
        /\ (last'.res # "Ok") =>
              /\ last'.res = "Unauthorized"
              /\ nfts' = nfts

\* C3: for a valid token id burn replies Ok exactly when the caller is the
\* current owner; any other caller (the approved delegate, an operator of the
\* owner, a custodian) gets Unauthorized and the token keeps its owner.
C3_BurnOwnerOnly == [](C3_Decides) /\ [][C3_Applied]_vars

\* the approved delegate, a custodian too, was refused the burn
C3_Witness ==
    /\ last.op = "burn" /\ last.res = "Unauthorized"
    /\ InRange(last.id)
    /\ NftAt(last.id).approved = last.caller
    /\ last.caller \in custodians
    /\ last.caller \in operators[NftAt(last.id).owner]

\* ----------------------------------------------------------------------- C4
C4_Step ==
    /\ (last'.op \in MutatingOps /\ last'.res = "Ok") =>
          /\ txid' = txid + 1
          /\ last'.ret = txid
    /\ (last'.res # "Ok") => (txid' = txid /\ last'.ret = -1)
    /\ txid' >= txid

\* C4: every applied mutating call replies the counter's value and advances it
\* by exactly one, and every rejected or trapped call leaves it alone: the
\* txids replied are consecutive, with no gap left by a failed call.
C4_TxidConsecutive == [][C4_Step]_vars

\* the third applied call replied txid 2
C4_Witness == last.op \in MutatingOps /\ last.res = "Ok" /\ last.ret = 2 /\ txid = 3

\* ----------------------------------------------------------------------- C5
C5_Ids == \A k \in 1..Len(nfts) : nfts[k].id = k - 1

C5_Applied ==
    (last'.op = "mint") =>
        /\ last'.res = "Ok"
        /\ last'.tok = Len(nfts)
        /\ total_supply' = total_supply + 1
        /\ \A k \in TokenIds : (k = last'.tok) => (owner_of(k)' = last'.to)
        /\ nfts'[last'.tok + 1].approved = None
        /\ \A k \in 1..Len(nfts) : nfts'[k] = nfts[k]

\* C5: mint always replies Ok, gives the new token the id equal to the token
\* count before the call, raises totalSupply by one and leaves the token owned
\* by `to` with no delegate; so the token at position i always has id i.
C5_MintSequentialIds == [](C5_Ids) /\ [][C5_Applied]_vars

\* a second token was minted and got id 1
C5_Witness ==
    /\ last.op = "mint" /\ last.res = "Ok" /\ last.tok = 1
    /\ total_supply = 2
    /\ owner_of(1) = last.to

\* ----------------------------------------------------------------------- C6
\* C6 as stated: a valid token on which burn never succeeded is never owned by
\* the sentinel.
C6_NeverSentinelUnlessBurned ==
    \A i \in ValidIds : (i \notin burned) => (owner_of(i) # MGMT)

C6_BecomesSentinel(i) ==
    /\ i < Len(nfts')
    /\ nfts'[i + 1].owner = MGMT
    /\ (i < Len(nfts)) => (nfts[i + 1].owner # MGMT)

C6_Step ==
    \A i \in TokenIds :
        C6_BecomesSentinel(i) =>
            /\ last'.res = "Ok"
            /\ \/ last'.op = "burn" /\ last'.id = i
               \/ last'.op \in {"transferFrom", "transferFromNotify"}
                     /\ last'.id = i /\ last'.to = MGMT
               \/ last'.op = "mint" /\ last'.tok = i /\ last'.to = MGMT

\* C6 amended: the sentinel becomes the owner of a token only by a burn of it,
\* by a mint whose `to` is the sentinel, or by a transferFrom or
\* transferFromNotify whose `to` is the sentinel; no safeTransferFrom,
\* safeTransferFromNotify or approve makes the sentinel an owner.
C6_SentinelOnlyByBurnOrUnsafeTarget == [][C6_Step]_vars

\* a token never burned is owned by the sentinel after transferFrom(.., MGMT, ..)
C6_Witness ==
    /\ last.op = "transferFrom" /\ last.res = "Ok" /\ last.to = MGMT
    /\ last.id \notin burned
    /\ owner_of(last.id) = MGMT

\* ----------------------------------------------------------------------- C7
C7_Unrelated(c, f, i) ==
    /\ c # NftAt(i).owner
    /\ c # NftAt(i).approved
    /\ c \notin operators[f]
    /\ c \notin custodians

C7_GrantStep == last'.op = "setApprovalForAll" /\ last'.a = MGMT /\ last'.flag

\* C7 as stated: after setApprovalForAll(sentinel, true) no operator set has
\* grown, and every transfer attempt on the caller's tokens by an identity
\* that is no owner, delegate, operator of `from` or custodian replies
\* Unauthorized.
C7_EveryAttemptUnauthorized ==
    [][C7_GrantStep =>
          /\ operators' = operators
          /\ \A c \in Principals, f \in Principals, t \in Principals, i \in ValidIds :
                (NftAt(i).owner = last'.caller /\ C7_Unrelated(c, f, i)) =>
                    /\ TransferRes(c, f, t, i)' = "Unauthorized"
                    /\ SafeTransferRes(c, f, t, i)' = "Unauthorized"]_vars

C7_Refused ==
    \A c \in Principals, f \in Principals, t \in Principals, i \in ValidIds :
        C7_Unrelated(c, f, i) =>
            /\ TransferRes(c, f, t, i) = "Unauthorized"
            /\ SafeTransferRes(c, f, t, i) =
                  (IF t = MGMT THEN "ZeroAddress" ELSE "Unauthorized")

\* C7 amended: setApprovalForAll(sentinel, true) changes no operator set, and
\* in every state an identity that is no owner, delegate, operator of `from` or
\* custodian is refused every transfer: with Unauthorized, except that the
\* safe variants reply ZeroAddress when `to` is the sentinel.
C7_NoGrantToEveryone ==
    [](C7_Refused) /\ [][C7_GrantStep => operators' = operators]_vars

\* the owner of a token has called setApprovalForAll(sentinel, true), and some
\* identity is unrelated to that token
C7_Witness ==
    /\ last.op = "setApprovalForAll" /\ last.a = MGMT /\ last.flag /\ last.res = "Ok"
    /\ \E i \in ValidIds :
          /\ NftAt(i).owner = last.caller
          /\ \E c \in Principals \ {MGMT} : C7_Unrelated(c, last.caller, i)

\* ----------------------------------------------------------------------- C8
C8_Eligible ==
    /\ last'.op = "simpleMint"
    /\ last'.text # "" /\ ValidUri(last'.text)
    /\ InWhiteList(last'.to)
    /\ begin_date <= last'.now /\ last'.now <= end_date

\* C8: simpleMint with a non-empty valid URI, a whitelisted recipient and the
\* time within [begin_date, end_date] replies Ok with a fresh txid and the next
\* token id, and appends one token owned by the recipient, with empty content
\* and the SHA-256 of the URI as its contentHash.
C8_SimpleMintSucceeds ==
    [][C8_Eligible =>
          /\ last'.res = "Ok"
          /\ last'.ret = txid /\ last'.tok = Len(nfts)
          /\ Len(nfts') = Len(nfts) + 1
          /\ nfts'[Len(nfts') ].owner = last'.to
          /\ nfts'[Len(nfts')].id = Len(nfts)
          /\ nfts'[Len(nfts')].content = <<>>
          /\ nfts'[Len(nfts')].metadata[1].key_val_data.contentHash = Sha256(last'.text)]_vars

\* ----------------------------------------------------------------------- C9
C9_Step ==
    (last'.op = "simpleMint" /\ ValidUri(last'.text)) =>
        /\ (last'.now < begin_date \/ last'.now > end_date) => last'.res = "TimeError"
        /\ (begin_date <= last'.now /\ last'.now <= end_date /\ ~InWhiteList(last'.to))
              => last'.res = "Unauthorized"
        /\ (last'.res \in {"TimeError", "Unauthorized"}) =>
              /\ nfts' = nfts
              /\ txid' = txid
              /\ last'.ret = -1 /\ last'.tok = -1

\* C9: simpleMint with a valid URI replies TimeError whenever the time is
\* before begin_date or after end_date, whitelisted recipient or not, and
\* Unauthorized when the time is in the window and the recipient is not
\* whitelisted; either way no token is created and txid stays.
C9_SimpleMintRejections == [][C9_Step]_vars

\* a whitelisted recipient was refused after the window closed
C9_Witness ==
    /\ last.op = "simpleMint" /\ last.res = "TimeError"
    /\ ValidUri(last.text)
    /\ InWhiteList(last.to)
    /\ last.now > end_date

\* ---------------------------------------------------------------------- C10
C10_Step ==
    /\ (custodians' # custodians) =>
          /\ last'.op = "setCustodian" /\ last'.res = "Ok"
          /\ last'.caller \in custodians
    /\ (name' # name) =>
          (last'.op = "setName" /\ last'.res = "Ok" /\ last'.caller \in custodians)
    /\ (symbol' # symbol) =>
          (last'.op = "setSymbol" /\ last'.res = "Ok" /\ last'.caller \in custodians)
    /\ (logo' # logo) =>
          (last'.op = "setLogo" /\ last'.res = "Ok" /\ last'.caller \in custodians)
    /\ (last'.op \in AdminOps /\ last'.caller \notin custodians) =>
          /\ last'.res = "Unauthorized"
          /\ custodians' = custodians
          /\ <<name', symbol', logo'>> = <<name, symbol, logo>>

\* C10: the custodian set, the name, the symbol and the logo change only by
\* setCustodian, setName, setSymbol, setLogo called by an identity that is a
\* custodian when it calls; a non-custodian calling them gets Unauthorized, and
\* no other operation touches them.
C10_OnlyCustodiansAdminister == [][C10_Step]_vars

\* a non-custodian was refused setCustodian while tokens exist and the
\* custodian set is no longer the initial one
C10_Witness ==
    /\ last.op = "setCustodian" /\ last.res = "Unauthorized"
    /\ last.caller \notin custodians
    /\ custodians # {"a"} /\ custodians # {}
    /\ Len(nfts) > 0

\* ---------------------------------------------------------------------- C11
\* the entry points that can reply an error
FallibleOps == TransferOps \cup AdminOps \cup {"approve", "burn", "simpleMint"}

C11_Step ==
    (last'.op \in FallibleOps /\ last'.res # "Ok") =>
        /\ nfts' = nfts
        /\ total_supply' = total_supply
        /\ operators' = operators
        /\ operator_keys' = operator_keys
        /\ custodians' = custodians
        /\ txid' = txid
        /\ HASHES' = HASHES
        /\ <<logo', name', symbol'>> = <<logo, name, symbol>>
        /\ <<white_list', begin_date', end_date', total_limit'>> =
              <<white_list, begin_date, end_date, total_limit>>

\* C11: a call of transferFrom, safeTransferFrom, transferFromNotify,
\* safeTransferFromNotify, approve, burn, simpleMint, setName, setSymbol,
\* setLogo or setCustodian that replies an error leaves the whole registry as
\* it was: owners, delegates, token count, operator sets, custodians, the
\* descriptive fields, the txid counter and the content-hash index.
C11_ErrorsWriteNothing == [][C11_Step]_vars

\* a transfer was refused for an ownership mismatch while tokens, an operator
\* grant and a used txid counter were there to be damaged
C11_Witness ==
    /\ last.op = "transferFromNotify" /\ last.res = "Other"
    /\ Len(nfts) > 0 /\ txid > 1
    /\ \E p \in Principals : operators[p] # {}

\* ---------------------------------------------------------------------- C12
\* the token ids that have an entry in the index
Indexed == {HASHES[k][1] : k \in 1..Len(HASHES)}

C12_Index ==
    /\ Len(HASHES) = total_supply
    /\ Indexed = {i \in TokenIds : InRange(i)}
    /\ \A k \in 1..Len(HASHES) : HASHES[k][1] = nfts[k].id

C12_Step ==
    /\ \A k \in 1..Len(HASHES) : k <= Len(HASHES') /\ HASHES'[k] = HASHES[k]
    /\ (HASHES' # HASHES) =>
          /\ last'.op \in {"mint", "simpleMint"} /\ last'.res = "Ok"
          /\ Len(HASHES') = Len(HASHES) + 1
          /\ HASHES'[Len(HASHES')][1] = last'.tok
          /\ last'.tok \notin Indexed
    /\ (last'.op \in {"mint", "simpleMint"} /\ last'.res = "Ok") => HASHES' # HASHES

\* C12: the content-hash index holds exactly one entry for each minted token
\* id 0 .. totalSupply-1 and none for any other id; the entry is written by
\* the mint that creates the token, and no later call (transfer, approve, burn
\* or any other) changes or removes it.
C12_HashIndexWriteOnce == [](C12_Index) /\ [][C12_Step]_vars

\* two tokens are indexed and one of them has since been burned
C12_Witness ==
    /\ Len(HASHES) = 2
    /\ last.op = "burn" /\ last.res = "Ok"
    /\ HASHES[1][1] = 0 /\ HASHES[2][1] = 1

\* ---------------------------------------------------------------------- C13
NotifyOps == {"transferFromNotify", "safeTransferFromNotify"}

\* a notification awaiting its answer belongs to a transfer that is applied
\* and stays applied: the counter is past the txid that transfer replied
C13_InFlight ==
    /\ \A n \in inflight : InRange(n.token_id) /\ n.txid < txid
    /\ last.notified => (last.op \in NotifyOps /\ last.res = "Ok")

C13_Step ==
    \* dispatched by a notifying transfer that succeeded, with its writes made
    /\ \A n \in inflight' \ inflight :
          /\ last'.op \in NotifyOps /\ last'.res = "Ok" /\ last'.notified
          /\ n = Notification(last')
          /\ TransferRes(n.caller, n.from, n.to, n.token_id) = "Ok"
          /\ owner_of(n.token_id)' = n.to
          /\ nfts'[n.token_id + 1].approved = None
          /\ txid = n.txid /\ txid' = n.txid + 1
    \* a notifying transfer that fails dispatches nothing
    /\ (last'.op \in NotifyOps /\ last'.res # "Ok") =>
          (~last'.notified /\ inflight' \subseteq inflight)
    \* the answer, whatever it is, changes neither the registry nor the reply
    /\ (inflight' # inflight /\ inflight' \subseteq inflight) =>
          /\ last' = last
          /\ <<nfts', operators', custodians', txid', HASHES'>> =
                <<nfts, operators, custodians, txid, HASHES>>
    \* a call the callee makes before it answers runs on the registry as the
    \* transfer left it or as later calls changed it, never on an earlier one
    /\ \A n \in inflight :
          (last' # last /\ last'.caller = n.to) => (txid' > n.txid /\ txid > n.txid)

\* C13: transferFromNotify and safeTransferFromNotify dispatch onDIP721Received
\* to `to` only when the transfer succeeded, and in the same step that changes
\* the owner, clears the approval and advances txid; a call made by the callee
\* while the notification is unanswered sees that transfer applied; and the
\* answer to the notification changes neither the reply given nor the registry.
C13_NotifyAfterTransfer == [](C13_InFlight) /\ [][C13_Step]_vars

\* the callee of an unanswered notification has called back and moved the
\* token it was notified about
C13_Witness ==
    \E n \in inflight :
        /\ last.op \in TransferOps /\ last.res = "Ok"
        /\ last.caller = n.to /\ last.id = n.token_id
        /\ owner_of(n.token_id) # n.to

\* ---------------------------------------------------------------------- C14
\* in whatever order each hash collection is walked, what pre_upgrade saves
\* decodes, and what post_upgrade puts back is what was there
C14_Snapshot ==
    \A o \in Orders :
        LET up == Upgraded(o, TRUE)
        IN  /\ up.ok
            /\ up.cells.state.nfts = nfts
            /\ up.cells.state.custodians = custodians
            /\ DOMAIN up.cells.state.operators = operator_keys
            /\ \A p \in operator_keys : up.cells.state.operators[p] = operators[p]
            /\ up.cells.state.txid = txid
            /\ up.cells.state.white_list = white_list
            /\ Len(up.cells.hashes) = Len(HASHES)
            /\ \A k \in 1..Len(HASHES) : up.cells.hashes[k] = HASHES[k]
            /\ Len(pre_upgrade(o).hashes) = Len(pre_upgrade(o).state.nfts)

C14_Step ==
    (last'.op = "upgrade") =>
        /\ Len(nfts') = Len(nfts)
        /\ \A k \in 1..Len(nfts) :
              /\ nfts'[k].owner = nfts[k].owner
              /\ nfts'[k].approved = nfts[k].approved
              /\ nfts'[k] = nfts[k]
        /\ operators' = operators
        /\ operator_keys' = operator_keys
        /\ custodians' = custodians
        /\ white_list' = white_list
        /\ <<begin_date', end_date'>> = <<begin_date, end_date>>
        /\ total_limit' = total_limit
        /\ <<logo', name', symbol'>> = <<logo, name, symbol>>
        /\ txid' = txid
        /\ Len(HASHES') = Len(HASHES)
        /\ \A k \in 1..Len(HASHES) : HASHES'[k] = HASHES[k]
        /\ Len(HASHES') = Len(nfts')

\* C14: saving the registry before an upgrade and restoring it after is a
\* round trip: every token's owner and approved delegate, every operator set,
\* the custodians, the whitelist, the mint window, the txid counter (not reset)
\* and every entry of the content-hash index come back as they were, the
\* registry and the index always together.
C14_UpgradeRoundTrip == [](C14_Snapshot) /\ [][C14_Step]_vars

\* an upgrade went through with two tokens, two index entries that may be
\* saved in either order, an operator grant and a used txid counter to carry
\* over
C14_Witness ==
    /\ last.op = "upgrade" /\ last.res = "Ok"
    /\ txid = 3 /\ Len(nfts) = 2 /\ Len(HASHES) = 2
    /\ \E o1 \in Orders, o2 \in Orders : pre_upgrade(o1).hashes # pre_upgrade(o2).hashes
    /\ \E p \in operator_keys : operators[p] # {}

\* ---------------------------------------------------------------------- C15
\* the ids a call may pass: every possible token id and one beyond them all
AnyIds == 0..(MaxTokens + 1)

\* caller c holds authority for a transfer of token i out of f
C15_Authorized(c, f, i) ==
    \/ c = NftAt(i).owner
    \/ c = NftAt(i).approved
    \/ c \in operators[f]
    \/ c \in custodians

\* the error a transfer of (c, f, t, i) replies once the target test is passed
C15_Order(res, c, f, i) ==
    /\ ~InRange(i) => res = "InvalidTokenId"
    /\ (InRange(i) /\ ~C15_Authorized(c, f, i)) => res = "Unauthorized"
    /\ (res = "Other") <=>
          (InRange(i) /\ C15_Authorized(c, f, i) /\ f # NftAt(i).owner)
    /\ (res = "Ok") <=>
          (InRange(i) /\ C15_Authorized(c, f, i) /\ f = NftAt(i).owner)

C15_Decides ==
    \A c \in Principals, f \in Principals, t \in Principals, i \in AnyIds :
        /\ SafeTransferRes(c, f, MGMT, i) = "ZeroAddress"
        /\ t # MGMT => C15_Order(SafeTransferRes(c, f, t, i), c, f, i)
        /\ C15_Order(TransferRes(c, f, t, i), c, f, i)

C15_Step ==
    (last' # last /\ last'.op \in TransferOps) =>
        /\ last'.res = "ZeroAddress" =>
              last'.op \in {"safeTransferFrom", "safeTransferFromNotify"}
        /\ last'.res = "InvalidTokenId" => ~InRange(last'.id)
        /\ last'.res = "Unauthorized" =>
              /\ InRange(last'.id)
              /\ last'.caller # NftAt(last'.id).owner
              /\ last'.caller # NftAt(last'.id).approved
              /\ last'.caller \notin custodians
        /\ last'.res = "Other" =>
              /\ InRange(last'.id)
              /\ \E f \in Principals :
                    C15_Authorized(last'.caller, f, last'.id) /\ f # NftAt(last'.id).owner
        /\ last'.res \in {"Ok", "ZeroAddress", "InvalidTokenId", "Unauthorized", "Other"}

\* C15: the errors of a transfer come in a fixed order.  A safe transfer whose
\* `to` is the sentinel replies ZeroAddress whatever the other arguments, an
\* out-of-range id included; otherwise an out-of-range id replies
\* InvalidTokenId; otherwise a caller without authority replies Unauthorized,
\* also when `from` is not the owner; the ownership-mismatch error is replied
\* only to a caller with authority when `from` is not the owner.
C15_ErrorPrecedence == [](C15_Decides) /\ [][C15_Step]_vars

\* a safe transfer to the sentinel of a token id that does not exist was
\* refused with ZeroAddress
C15_Witness ==
    /\ last.op = "safeTransferFrom" /\ last.res = "ZeroAddress"
    /\ ~InRange(last.id)
    /\ Len(nfts) > 0

\* ---------------------------------------------------------------------- C16
C16_Decides ==
    \A c \in Principals, u \in Principals, i \in ValidIds :
        /\ (ApproveRes(c, u, i) = "Ok") <=>
              \/ c = NftAt(i).owner
              \/ c = NftAt(i).approved
              \/ c \in operators[u]
              \/ c \in custodians
        /\ ApproveRes(c, u, i) \in {"Ok", "Unauthorized"}

C16_Step ==
    /\ (last'.op = "approve" /\ last'.res = "Ok") =>
          /\ InRange(last'.id)
          /\ \/ last'.caller = NftAt(last'.id).owner
             \/ last'.caller = NftAt(last'.id).approved
             \/ last'.caller \in operators[last'.a]
             \/ last'.caller \in custodians
          /\ nfts'[last'.id + 1].approved = last'.a
          /\ nfts'[last'.id + 1].owner = NftAt(last'.id).owner
          /\ nfts' = [nfts EXCEPT ![last'.id + 1].approved = last'.a]
          /\ last'.ret = txid /\ txid' = txid + 1
    /\ (last' # last /\ last'.op = "approve" /\ last'.res # "Ok" /\ InRange(last'.id)) =>
          /\ last'.res = "Unauthorized"
          /\ last'.caller # NftAt(last'.id).owner
          /\ last'.caller # NftAt(last'.id).approved
          /\ last'.caller \notin custodians
          /\ nfts' = nfts

\* C16: for a valid token id, approve(delegate, id) by caller C replies Ok
\* exactly when C is the token's owner, or its approved delegate, or a member
\* of the operator set registered under `delegate` (not under the owner), or a
\* custodian; then the approved delegate becomes `delegate`, the owner stays
\* and a new txid is replied.  Otherwise it replies Unauthorized.
C16_ApproveIff == [](C16_Decides) /\ [][C16_Step]_vars

\* an approve was applied for a caller whose only title is to be an operator
\* of the delegate it names, not of the owner
C16_Witness ==
    /\ last.op = "approve" /\ last.res = "Ok"
    /\ last.caller # NftAt(last.id).owner
    /\ last.caller \notin custodians
    /\ last.caller \in operators[last.a]
    /\ last.caller \notin operators[NftAt(last.id).owner]
    /\ NftAt(last.id).approved = last.a
    /\ last.a # NftAt(last.id).owner

\* ---------------------------------------------------------------------- C17
\* the operator set of caller c after setApprovalForAll(o, b), as claimed
C17_Expected(c, o, b) ==
    IF o = c THEN operators[c]
    ELSE IF o = MGMT /\ ~b THEN {}
    ELSE IF o = MGMT /\ b THEN operators[c]
    ELSE IF b THEN operators[c] \cup {o}
    ELSE operators[c] \ {o}

C17_Step ==
    (last'.op = "setApprovalForAll") =>
        /\ last'.res = "Ok"
        /\ last'.ret = txid /\ txid' = txid + 1
        /\ \A c \in Principals :
              IF c = last'.caller
              THEN /\ operators'[c] = C17_Expected(c, last'.a, last'.flag)
                   /\ \A o \in Principals :
                         is_approved_for_all(c, o)' <=>
                            (o \in C17_Expected(c, last'.a, last'.flag))
              ELSE operators'[c] = operators[c]
        /\ nfts' = nfts
        /\ custodians' = custodians
        /\ HASHES' = HASHES
        /\ <<logo', name', symbol'>> = <<logo, name, symbol>>
        /\ <<white_list', begin_date', end_date', total_limit'>> =
              <<white_list, begin_date, end_date, total_limit>>

\* C17: setApprovalForAll(operator, flag) by caller C never fails and always
\* replies a new txid; it changes C's own operator set and nothing else: the
\* set is unchanged when operator = C, emptied when operator is the sentinel
\* and flag is false, unchanged when operator is the sentinel and flag is
\* true, and otherwise gains (flag true) or loses (flag false) the operator.
\* isApprovedForAll(operator) asked by C tells the membership in C's set.
C17_SetApprovalForAll == [][C17_Step]_vars

\* a caller with an operator registered has revoked them all through the
\* sentinel
C17_Witness ==
    /\ last.op = "setApprovalForAll" /\ last.a = MGMT /\ ~last.flag
    /\ last.ret >= 1
    /\ operators[last.caller] = {}
    /\ \E p \in Principals : operators[p] # {}

\* ---------------------------------------------------------------------- C18
C18_Step ==
    /\ (last'.op = "burn" /\ last'.res = "Ok") =>
          /\ InRange(last'.id)
          /\ nfts' = [nfts EXCEPT ![last'.id + 1].owner = MGMT]
          /\ nfts'[last'.id + 1].approved = NftAt(last'.id).approved
          /\ nfts'[last'.id + 1].id = last'.id
          /\ \A k \in TokenIds : (k = last'.id) => (owner_of(k)' = MGMT)
          /\ last'.ret = txid /\ txid' = txid + 1
          /\ operators' = operators
          /\ operator_keys' = operator_keys
          /\ custodians' = custodians
          /\ HASHES' = HASHES
          /\ <<logo', name', symbol'>> = <<logo, name, symbol>>
    /\ total_supply' >= total_supply
    /\ \A k \in 1..Len(nfts) : nfts'[k].id = nfts[k].id

\* C18: a burn that succeeds changes the burned token's owner, to the
\* sentinel, and the txid counter, and nothing else: the token stays in the
\* registry under its id, its approved delegate is left as it was, every
\* other token, the operator sets and the custodians are untouched, and
\* ownerOf(id) replies the sentinel rather than InvalidTokenId.  totalSupply
\* never decreases under any operation.
C18_BurnFrame == [][C18_Step]_vars

\* a token was burned while it had an approved delegate, and still has it
C18_Witness ==
    /\ last.op = "burn" /\ last.res = "Ok"
    /\ owner_of(last.id) = MGMT
    /\ NftAt(last.id).approved \notin {None, MGMT}
    /\ total_supply > 0

\* ---------------------------------------------------------------------- C19
\* C19: ownership cannot be taken without authority that comes from the owner
\* or a custodian: an identity that has never been a custodian, never owned
\* token t, never been an operator registered by an owner of t and never been
\* made t's approved delegate by a call of someone holding such a title, gets
\* no transfer of t applied, under any `from` and `to`; in particular Q
\* registering P as Q's own operator and P calling approve(Q, t) does not let
\* Q transfer t.
C19_NoTakingWithoutAuthority ==
    \A c \in Principals, i \in ValidIds :
        (c \notin titled[i]) =>
            \A f \in Principals, t \in Principals :
                /\ TransferRes(c, f, t, i) # "Ok"
                /\ SafeTransferRes(c, f, t, i) # "Ok"

\* ---------------------------------------------------------------------- C20
\* C20: burn is permanent: a token on which burn has succeeded is owned by the
\* sentinel ever after; no later transfer, approve or burn by anyone, the
\* stale approved delegate or a custodian passing `from` = sentinel included,
\* gives it another owner.
C20_BurnIsPermanent == \A i \in burned : owner_of(i) = MGMT

====
